---- MODULE Spec2Model ----
(***************************************************************************)
(* Food / drink pairing pipeline (LangGraph service) of bartender-1111.    *)
(*                                                                         *)
(* JavaScript values are tagged records, provider text is a sequence of    *)
(* lexical tokens, and the two stage functions, the two routing functions, *)
(* the graph built by buildFoodPairingGraph, the service method execute    *)
(* and the POST handler are translated from the TypeScript source.         *)
(* Message strings are English renderings of the Chinese literals.         *)
(***************************************************************************)
EXTENDS Integers, Sequences, FiniteSets, TLC

(***************************************************************************)
(* Bounds of the model.                                                    *)
(***************************************************************************)
\* largest number of elements of a JSON array the provider is made to return
MaxElems == 2
\* largest number of food ingredients in a request
MaxItems == 2
\* number of concurrent callers of ragService
MaxCallers == 2
\* largest number of PDF files in the pdfs directory
MaxFiles == 2
\* largest number of sentences in a text to split
MaxSentences == 3

(***************************************************************************)
(* JavaScript / JSON values.                                               *)
(***************************************************************************)
JNull == [t |-> "null"]
UNDEF == [t |-> "undefined"]
JStr(s) == [t |-> "string", v |-> s]
JNum(n) == [t |-> "number", v |-> n]
JArr(s) == [t |-> "array", v |-> s]
JObj(f) == [t |-> "object", f |-> f]
\* the result of crypto.randomUUID(): a non-empty string different from every
\* string the provider or the user can supply and from every other UUID
JUuid(n) == [t |-> "uuid", n |-> n]

\* JavaScript truthiness, as used by `x || d`, `!x` and `if (x)`
Truthy(x) ==
  /\ x.t \notin {"null", "undefined"}
  /\ x # JStr("")
  /\ x # JNum(0)

IsArray(x) == x.t = "array"

\* property access x.key; reading a property of null or undefined throws
GetThrows(x) == x.t \in {"null", "undefined"}
Get(x, key) ==
  IF x.t = "object" /\ key \in DOMAIN x.f THEN x.f[key] ELSE UNDEF

\* a || d
OrElse(a, d) == IF Truthy(a) THEN a ELSE d

(***************************************************************************)
(* Provider text: a sequence of tokens.  "prose" is any run of characters  *)
(* holding no bracket or brace; strings hold no bracket or brace either.   *)
(***************************************************************************)
\* "lb" [, "rb" ], "lc" {, "rc" }, "comma", "null", and "prose"
Tok(k) == [k |-> k]
\* "key": the name of a member and its colon; "str", "num": a literal
TokV(k, v) == [k |-> k, v |-> v]

\* order in which the rendering writes the keys of an object
KeyOrder ==
  <<"id", "name", "cuisine", "difficulty", "steps", "dishId", "beverageId",
    "beverages", "pairingReasons", "overallSuggestion">>

RECURSIVE Render(_)
RECURSIVE RenderItems(_, _)
RECURSIVE RenderFields(_, _, _)
\* JSON text of a value (what a conforming provider writes)
Render(x) ==
  CASE x.t = "null" -> <<Tok("null")>>
    [] x.t = "string" -> <<TokV("str", x.v)>>
    [] x.t = "number" -> <<TokV("num", x.v)>>
    [] x.t = "array" -> <<Tok("lb")>> \o RenderItems(x.v, 1) \o <<Tok("rb")>>
    [] x.t = "object" -> <<Tok("lc")>> \o RenderFields(x.f, 1, TRUE) \o <<Tok("rc")>>
RenderItems(s, i) ==
  IF i > Len(s) THEN <<>>
  ELSE (IF i > 1 THEN <<Tok("comma")>> ELSE <<>>) \o Render(s[i]) \o RenderItems(s, i + 1)
RenderFields(f, j, first) ==
  IF j > Len(KeyOrder) THEN <<>>
  ELSE IF KeyOrder[j] \in DOMAIN f
       THEN (IF first THEN <<>> ELSE <<Tok("comma")>>)
            \o <<TokV("key", KeyOrder[j])>> \o Render(f[KeyOrder[j]])
            \o RenderFields(f, j + 1, FALSE)
       ELSE RenderFields(f, j + 1, first)

(***************************************************************************)
(* JSON.parse on a token sequence.                                         *)
(***************************************************************************)
ParseFail == [ok |-> FALSE]
ParseOk(val, next) == [ok |-> TRUE, val |-> val, next |-> next]

RECURSIVE ParseValue(_, _)
RECURSIVE ParseItems(_, _, _)
RECURSIVE ParseFields(_, _, _)
ParseValue(toks, i) ==
  IF i > Len(toks) THEN ParseFail
  ELSE CASE toks[i].k = "null" -> ParseOk(JNull, i + 1)
         [] toks[i].k = "str" -> ParseOk(JStr(toks[i].v), i + 1)
         [] toks[i].k = "num" -> ParseOk(JNum(toks[i].v), i + 1)
         [] toks[i].k = "lb" ->
              IF i + 1 <= Len(toks) /\ toks[i + 1].k = "rb"
              THEN ParseOk(JArr(<<>>), i + 2)
              ELSE ParseItems(toks, i + 1, <<>>)
         [] toks[i].k = "lc" ->
              IF i + 1 <= Len(toks) /\ toks[i + 1].k = "rc"
              THEN ParseOk(JObj(<<>>), i + 2)
              ELSE ParseFields(toks, i + 1, <<>>)
         [] OTHER -> ParseFail
ParseItems(toks, i, acc) ==
  LET r == ParseValue(toks, i) IN
  IF ~r.ok \/ r.next > Len(toks) THEN ParseFail
  ELSE IF toks[r.next].k = "comma"
       THEN ParseItems(toks, r.next + 1, Append(acc, r.val))
       ELSE IF toks[r.next].k = "rb"
            THEN ParseOk(JArr(Append(acc, r.val)), r.next + 1)
            ELSE ParseFail
ParseFields(toks, i, acc) ==
  IF i > Len(toks) \/ toks[i].k # "key" THEN ParseFail
  ELSE LET r == ParseValue(toks, i + 1) IN
       IF ~r.ok \/ r.next > Len(toks) THEN ParseFail
       ELSE LET f == (toks[i].v :> r.val) @@ acc IN
            IF toks[r.next].k = "comma" THEN ParseFields(toks, r.next + 1, f)
            ELSE IF toks[r.next].k = "rc" THEN ParseOk(JObj(f), r.next + 1)
                 ELSE ParseFail

\* JSON.parse(text): the whole text must be one value, else it throws
JSONparse(toks) ==
  LET r == ParseValue(toks, 1) IN
  IF r.ok /\ r.next = Len(toks) + 1 THEN r ELSE ParseFail

\* mutant: the pattern is anchored, /^<open>[\s\S]*<close>$/
GreedyMatch_Anchored(toks, open, close) ==
  IF Len(toks) > 0 /\ toks[1].k = open /\ toks[Len(toks)].k = close THEN toks ELSE <<>>

\* content.match(/<open>[\s\S]*<close>/): greedy, from the first opening token
\* to the last closing token after it; <<>> stands for "no match" (null)
GreedyMatch(toks, open, close) ==
  LET os == {i \in 1..Len(toks) : toks[i].k = open}
      cs == {i \in 1..Len(toks) : toks[i].k = close}
  IN
  IF os = {} THEN <<>>
  ELSE LET a == CHOOSE i \in os : \A j \in os : i <= j
           after == {i \in cs : i > a}
       IN IF after = {} THEN <<>>
          ELSE LET b == CHOOSE i \in after : \A j \in after : j <= i
               IN SubSeq(toks, a, b)

(***************************************************************************)
(* Literals of foodPairingNodes.                                           *)
(***************************************************************************)
LLM_MODEL == JStr("gpt-4")
DefaultDifficulty == 3

\* the string literals of the stage functions and of the two recoveries;
\* typeError is the message of the TypeError a bad property read throws
NodeText ==
  [emptyContent |-> JStr("LLM returned empty content"),
   noValidDishes |-> JStr("no valid dish recommendations were generated"),
   dishFailed |-> JStr("dish recommendation failed, check the input and the LLM configuration"),
   missingDishes |-> JStr("missing dish recommendations, cannot pair beverages"),
   beverageFailed |-> JStr("beverage pairing failed, check the input and the LLM configuration"),
   typeError |-> JStr("TypeError"),
   defaultCuisine |-> JStr("general"),
   unknownDish |-> JStr("unknown dish"),
   unknownBeverage |-> JStr("unknown beverage"),
   suggestionDefault |-> JStr("choose the pairing that suits your taste"),
   suggestionFallback |-> JStr("sorry, no valid beverage pairing was generated")]

\* Array.isArray(x) ? x : []
ArrayOrEmpty(x) == IF IsArray(x) THEN x ELSE JArr(<<>>)

(***************************************************************************)
(* parseDishRecommendations.  The fields description, requiredIngredients, *)
(* cookingTime, source and tags follow the patterns of name, steps,        *)
(* difficulty and are left out.  ctr is the number of UUIDs drawn so far.  *)
(***************************************************************************)
\* mutant: the id of the source is kept even when it is empty
NormalizeDish_KeepsEmptyId(dish, defaultCuisine, ctr) ==
  JObj([id |-> Get(dish, "id"),
        name |-> OrElse(Get(dish, "name"), NodeText.unknownDish),
        cuisine |-> OrElse(Get(dish, "cuisine"), defaultCuisine),
        difficulty |-> OrElse(Get(dish, "difficulty"), JNum(DefaultDifficulty)),
        steps |-> ArrayOrEmpty(Get(dish, "steps"))])

NormalizeDish(dish, defaultCuisine, ctr) ==
  JObj([id |-> OrElse(Get(dish, "id"), JUuid(ctr + 1)),
        name |-> OrElse(Get(dish, "name"), NodeText.unknownDish),
        cuisine |-> OrElse(Get(dish, "cuisine"), defaultCuisine),
        difficulty |-> OrElse(Get(dish, "difficulty"), JNum(DefaultDifficulty)),
        steps |-> ArrayOrEmpty(Get(dish, "steps"))])

\* number of randomUUID() calls one element costs
UuidCost(x) == IF Truthy(Get(x, "id")) THEN 0 ELSE 1

RECURSIVE MapDishes(_, _, _, _, _)
\* parsed.map(dish => ...): [threw, recs, ctr]
MapDishes(elems, i, defaultCuisine, ctr, acc) ==
  IF i > Len(elems) THEN [threw |-> FALSE, recs |-> acc, ctr |-> ctr]
  ELSE IF GetThrows(elems[i]) THEN [threw |-> TRUE, recs |-> <<>>, ctr |-> ctr]
       ELSE MapDishes(elems, i + 1, defaultCuisine, ctr + UuidCost(elems[i]),
                      Append(acc, NormalizeDish(elems[i], defaultCuisine, ctr)))

\* mutant: no try/catch around JSON.parse and the mapping
parseDishRecommendations_NoCatch(content, defaultCuisine, ctr) ==
  LET jsonMatch == GreedyMatch(content, "lb", "rb")
      parsed == JSONparse(jsonMatch)
      mapped == MapDishes(parsed.val.v, 1, defaultCuisine, ctr, <<>>)
  IN
  IF jsonMatch = <<>> THEN [raised |-> FALSE, recs |-> <<>>, ctr |-> ctr]
  ELSE IF ~parsed.ok THEN [raised |-> TRUE, recs |-> <<>>, ctr |-> ctr]
       ELSE [raised |-> mapped.threw, recs |-> mapped.recs, ctr |-> mapped.ctr]

\* raised is TRUE when an exception leaves the function; what JSON.parse and
\* the mapping throw is caught, and the empty list is returned
parseDishRecommendations(content, defaultCuisine, ctr) ==
  LET jsonMatch == GreedyMatch(content, "lb", "rb")
      parsed == JSONparse(jsonMatch)
      mapped == MapDishes(parsed.val.v, 1, defaultCuisine, ctr, <<>>)
  IN
  IF jsonMatch = <<>> \/ ~parsed.ok THEN [raised |-> FALSE, recs |-> <<>>, ctr |-> ctr]
  ELSE IF mapped.threw THEN [raised |-> FALSE, recs |-> <<>>, ctr |-> mapped.ctr]
       ELSE [raised |-> FALSE, recs |-> mapped.recs, ctr |-> mapped.ctr]

(***************************************************************************)
(* parseBeveragePairing.                                                   *)
(***************************************************************************)
NormalizeBeverage(b, ctr) ==
  JObj([id |-> OrElse(Get(b, "id"), JUuid(ctr + 1)),
        name |-> OrElse(Get(b, "name"), NodeText.unknownBeverage),
        difficulty |-> OrElse(Get(b, "difficulty"), JNum(DefaultDifficulty)),
        steps |-> ArrayOrEmpty(Get(b, "steps"))])

NormalizeReason(r, ctr) ==
  JObj([id |-> OrElse(Get(r, "id"), JUuid(ctr + 1)),
        dishId |-> OrElse(Get(r, "dishId"), JStr("")),
        beverageId |-> OrElse(Get(r, "beverageId"), JStr(""))])

RECURSIVE MapBeverages(_, _, _, _)
MapBeverages(elems, i, ctr, acc) ==
  IF i > Len(elems) THEN [threw |-> FALSE, recs |-> acc, ctr |-> ctr]
  ELSE IF GetThrows(elems[i]) THEN [threw |-> TRUE, recs |-> <<>>, ctr |-> ctr]
       ELSE MapBeverages(elems, i + 1, ctr + UuidCost(elems[i]),
                         Append(acc, NormalizeBeverage(elems[i], ctr)))

RECURSIVE MapReasons(_, _, _, _)
MapReasons(elems, i, ctr, acc) ==
  IF i > Len(elems) THEN [threw |-> FALSE, recs |-> acc, ctr |-> ctr]
  ELSE IF GetThrows(elems[i]) THEN [threw |-> TRUE, recs |-> <<>>, ctr |-> ctr]
       ELSE MapReasons(elems, i + 1, ctr + UuidCost(elems[i]),
                       Append(acc, NormalizeReason(elems[i], ctr)))

\* the CompletePairingRecommendation object
PairingResult(dishes, beverages, pairingReasons, overallSuggestion) ==
  JObj([dishes |-> dishes,
        beverages |-> JArr(beverages),
        pairingReasons |-> JArr(pairingReasons),
        overallSuggestion |-> overallSuggestion,
        dishCount |-> JNum(Len(dishes.v)),
        beverageCount |-> JNum(Len(beverages)),
        pairingCount |-> JNum(Len(pairingReasons))])

parseBeveragePairing(content, dishes, ctr) ==
  LET jsonMatch == GreedyMatch(content, "lc", "rc")
      parsed == JSONparse(jsonMatch)
      bevs == MapBeverages(ArrayOrEmpty(Get(parsed.val, "beverages")).v, 1, ctr, <<>>)
      reasons == MapReasons(ArrayOrEmpty(Get(parsed.val, "pairingReasons")).v, 1,
                            bevs.ctr, <<>>)
      fallback == PairingResult(dishes, <<>>, <<>>, NodeText.suggestionFallback)
  IN
  IF jsonMatch = <<>> \/ ~parsed.ok THEN [raised |-> FALSE, res |-> fallback, ctr |-> ctr]
  ELSE IF bevs.threw THEN [raised |-> FALSE, res |-> fallback, ctr |-> bevs.ctr]
       ELSE IF reasons.threw THEN [raised |-> FALSE, res |-> fallback, ctr |-> reasons.ctr]
            ELSE [raised |-> FALSE,
                  res |-> PairingResult(dishes, bevs.recs, reasons.recs,
                                        OrElse(Get(parsed.val, "overallSuggestion"),
                                               NodeText.suggestionDefault)),
                  ctr |-> reasons.ctr]

(***************************************************************************)
(* LLMService.parseRecommendations and its line-oriented fallback.  A text *)
(* is taken to be written one member to a line, so that the lines holding  *)
(* "name" are the "name" key tokens; prose holds no such marker.           *)
(***************************************************************************)
\* extractFromText: one recipe for every line that holds "name"
extractFromText(content) ==
  LET marks == {i \in 1..Len(content) : content[i].k = "key" /\ content[i].v = "name"}
      nth(k) == CHOOSE i \in marks : Cardinality({j \in marks : j < i}) = k - 1
      value(i) == IF i + 1 <= Len(content) /\ content[i + 1].k = "str"
                  THEN JStr(content[i + 1].v) ELSE JStr("")
  IN [k \in 1..Cardinality(marks) |->
        JObj([name |-> value(nth(k)), difficulty |-> JNum(1), steps |-> JArr(<<>>)])]

\* parseRecommendations: the parsed array as it is, else the fallback
parseRecommendations(content, ctr) ==
  LET jsonMatch == GreedyMatch(content, "lb", "rb")
      parsed == JSONparse(jsonMatch)
  IN
  IF Len(content) = 0 THEN [raised |-> FALSE, recs |-> <<>>, ctr |-> ctr]
  ELSE IF jsonMatch # <<>> /\ parsed.ok
       THEN [raised |-> FALSE, recs |-> parsed.val.v, ctr |-> ctr]
       ELSE [raised |-> FALSE, recs |-> extractFromText(content), ctr |-> ctr]

\* the three recoveries by the shape they expect: "array" for dishes,
\* "object" for a pairing, "recipes" for the recipes of LLMService
recover(shape, content, ctr) ==
  IF shape = "array"
  THEN parseDishRecommendations(content, NodeText.defaultCuisine, ctr)
  ELSE IF shape = "recipes" THEN parseRecommendations(content, ctr)
       ELSE LET r == parseBeveragePairing(content, JArr(<<>>), ctr)
            IN [raised |-> r.raised, recs |-> r.res, ctr |-> r.ctr]
(***************************************************************************)
(* FoodPairingState and partial updates.                                   *)
(***************************************************************************)
END == "__end__"

\* createInitialState(input)
createInitialState(input) ==
  [userInput |-> JObj([cuisine |-> IF input.cuisine.t = "undefined" THEN JNull
                                   ELSE input.cuisine,
                       foodIngredients |-> input.foodIngredients,
                       drinkIngredients |-> IF GetThrows(input.drinkIngredients)
                                            THEN JArr(<<>>)
                                            ELSE input.drinkIngredients]),
   agent1Output |-> JNull,
   agent2Output |-> JNull,
   error |-> JNull,
   metadata |-> JObj([model |-> UNDEF])]

\* the state channels keep their last written value: an update overwrites the
\* keys it names and leaves the others
Merge(st, update) ==
  [key \in DOMAIN st |-> IF key \in DOMAIN update THEN update[key] ELSE st[key]]

\* z.array(z.string())
IsStringArray(x) ==
  IsArray(x) /\ \A i \in 1..Len(x.v) : x.v[i].t = "string"

\* UserInputSchema / UserInputValidationSchema
UserInputSchemaOk(cuisine, foodIngredients, drinkIngredients) ==
  /\ cuisine.t \in {"string", "null", "undefined"}
  /\ IsStringArray(foodIngredients)
  /\ Len(foodIngredients.v) >= 1
  /\ drinkIngredients.t = "undefined" \/ IsStringArray(drinkIngredients)

\* FoodPairingStateSchema.parse(state) succeeds
validateStateOk(st) ==
  /\ st.userInput.t = "object"
  /\ UserInputSchemaOk(Get(st.userInput, "cuisine"),
                       Get(st.userInput, "foodIngredients"),
                       Get(st.userInput, "drinkIngredients"))
  /\ st.agent1Output.t \in {"array", "null", "undefined"}
  /\ st.error.t \in {"string", "null", "undefined"}

(***************************************************************************)
(* Routing functions.                                                      *)
(***************************************************************************)
\* mutant: a plain edge from the Recommender to the Pairing Stage
shouldContinueToBeveragePairing_PlainEdge(st) == "beverage_pairing"

\* mutant: the check of the dish list is missing
shouldContinueToBeveragePairing_ErrorOnly(st) ==
  IF Truthy(st.error) THEN END ELSE "beverage_pairing"

shouldContinueToBeveragePairing(st) ==
  IF Truthy(st.error) THEN END
  ELSE LET dishes == st.agent1Output IN
       IF ~Truthy(dishes) \/ ~IsArray(dishes) \/ Len(dishes.v) = 0 THEN END
       ELSE "beverage_pairing"

\* mutant: a failed pairing is sent back to the Pairing Stage
shouldFinishPairing_Retry(st) ==
  IF Truthy(st.error) THEN "beverage_pairing" ELSE END

shouldFinishPairing(st) ==
  IF Truthy(st.error) THEN END
  ELSE IF ~Truthy(st.agent2Output) THEN END
       ELSE END

(***************************************************************************)
(* Stage functions.  A provider outcome is the completion's content, or    *)
(* the rejection of openai.chat.completions.create with an error whose     *)
(* message may be missing or empty.                                        *)
(***************************************************************************)
Text(content) == [kind |-> "text", content |-> content]
NoContent == [kind |-> "nocontent"]
Rejects(message) == [kind |-> "throw", message |-> message]

Threw(message) == [threw |-> TRUE, message |-> message]
Done(update, ctr) == [threw |-> FALSE, update |-> update, ctr |-> ctr]

\* what a stage function hands back to the graph: raised is TRUE when an
\* exception leaves the function instead of an update
Returns(update, ctr) == [raised |-> FALSE, update |-> update, ctr |-> ctr]

\* the statements of dishRecommenderNode's try block before the provider call
DishPreThrows(st) ==
  \/ GetThrows(st.userInput)
  \/ ~IsArray(Get(st.userInput, "foodIngredients"))

\* mutant: an empty list of dishes is passed on as the stage's output
DishBody_NoEmptyCheck(st, outcome, ctr) ==
  IF outcome.kind = "throw" THEN Threw(outcome.message)
  ELSE IF outcome.kind = "nocontent" \/ Len(outcome.content) = 0
       THEN Threw(NodeText.emptyContent)
       ELSE LET dishes == parseDishRecommendations(
                            outcome.content,
                            OrElse(Get(st.userInput, "cuisine"), NodeText.defaultCuisine), ctr)
            IN Done([agent1Output |-> JArr(dishes.recs),
                     metadata |-> JObj([model |-> LLM_MODEL])],
                    dishes.ctr)

\* the statements of the try block after the provider call
DishBody(st, outcome, ctr) ==
  IF outcome.kind = "throw" THEN Threw(outcome.message)
  ELSE IF outcome.kind = "nocontent" \/ Len(outcome.content) = 0
       THEN Threw(NodeText.emptyContent)
       ELSE LET cuisine == Get(st.userInput, "cuisine")
                dishes == parseDishRecommendations(outcome.content,
                                                   OrElse(cuisine, NodeText.defaultCuisine), ctr)
            IN IF Len(dishes.recs) = 0 THEN Threw(NodeText.noValidDishes)
               ELSE Done([agent1Output |-> JArr(dishes.recs),
                          metadata |-> JObj([model |-> LLM_MODEL])],
                         dishes.ctr)

\* mutant: the message of the caught error is used as it is
DishCatch_NoDefault(message) == [error |-> message, agent1Output |-> JNull]

\* the catch block of dishRecommenderNode
DishCatch(message) ==
  [error |-> OrElse(message, NodeText.dishFailed), agent1Output |-> JNull]

\* dishRecommenderNode up to its await: TRUE when it calls the provider
DishCallsProvider(st) == ~DishPreThrows(st)

\* dishRecommenderNode from its await on (outcome is ignored when the
\* provider was not called)
dishRecommenderNode(st, outcome, ctr) ==
  IF DishPreThrows(st) THEN Returns(DishCatch(NodeText.typeError), ctr)
  ELSE LET body == DishBody(st, outcome, ctr) IN
       IF body.threw THEN Returns(DishCatch(body.message), ctr)
       ELSE Returns(body.update, body.ctr)

\* mutant: the check for missing dishes is left out
BevPreThrow_NoCheck(st) ==
  LET dishes == st.agent1Output IN
  IF GetThrows(st.userInput) THEN <<NodeText.typeError>>
  ELSE IF ~IsArray(dishes) \/ \E i \in 1..Len(dishes.v) : GetThrows(dishes.v[i])
       THEN <<NodeText.typeError>>
       ELSE <<>>

\* the statements of beveragePairingNode's try block before the provider call:
\* <<>> when none throws, else the message thrown
BevPreThrow(st) ==
  LET dishes == st.agent1Output IN
  IF GetThrows(st.userInput) THEN <<NodeText.typeError>>
  ELSE IF ~Truthy(dishes) \/ (IsArray(dishes) /\ Len(dishes.v) = 0)
       THEN <<NodeText.missingDishes>>
       ELSE IF ~IsArray(dishes) \/ \E i \in 1..Len(dishes.v) : GetThrows(dishes.v[i])
            THEN <<NodeText.typeError>>
            ELSE LET drinks == OrElse(Get(st.userInput, "drinkIngredients"), JArr(<<>>))
                 IN IF drinks.t = "string" THEN <<NodeText.typeError>> ELSE <<>>

\* mutant: a pairing without beverages is a failure of the stage, as a list
\* without dishes is for the Recommender
BevBody_Strict(st, outcome, ctr) ==
  IF outcome.kind = "throw" THEN Threw(outcome.message)
  ELSE IF outcome.kind = "nocontent" \/ Len(outcome.content) = 0
       THEN Threw(NodeText.emptyContent)
       ELSE LET pairingResult == parseBeveragePairing(outcome.content,
                                                      st.agent1Output, ctr)
            IN IF Len(Get(pairingResult.res, "beverages").v) = 0
               THEN Threw(NodeText.noValidDishes)
               ELSE Done([agent2Output |-> pairingResult.res,
                          metadata |-> JObj([model |-> LLM_MODEL])],
                         pairingResult.ctr)

BevBody(st, outcome, ctr) ==
  IF outcome.kind = "throw" THEN Threw(outcome.message)
  ELSE IF outcome.kind = "nocontent" \/ Len(outcome.content) = 0
       THEN Threw(NodeText.emptyContent)
       ELSE LET pairingResult == parseBeveragePairing(outcome.content,
                                                      st.agent1Output, ctr)
            IN Done([agent2Output |-> pairingResult.res,
                     metadata |-> JObj([model |-> LLM_MODEL])],
                    pairingResult.ctr)

\* mutant: the catch block clears the dishes as well
BevCatch_DropsDishes(message) ==
  [error |-> OrElse(message, NodeText.beverageFailed), agent2Output |-> JNull,
   agent1Output |-> JNull]

\* the catch block of beveragePairingNode
BevCatch(message) ==
  [error |-> OrElse(message, NodeText.beverageFailed), agent2Output |-> JNull]

BevCallsProvider(st) == BevPreThrow(st) = <<>>

beveragePairingNode(st, outcome, ctr) ==
  IF BevPreThrow(st) # <<>> THEN Returns(BevCatch(BevPreThrow(st)[1]), ctr)
  ELSE LET body == BevBody(st, outcome, ctr) IN
       IF body.threw THEN Returns(BevCatch(body.message), ctr)
       ELSE Returns(body.update, body.ctr)
(***************************************************************************)
(* The graph of buildFoodPairingGraph.                                     *)
(***************************************************************************)
\* mutant: the graph is entered at the Pairing Stage
EntryPoint_Pairing == "beverage_pairing"

EntryPoint == "dish_recommender"

\* addConditionalEdges: the routing function of a node and its path map
RouteOf(node, st) ==
  IF node = "dish_recommender" THEN shouldContinueToBeveragePairing(st)
  ELSE shouldFinishPairing(st)

PathMap(node) ==
  IF node = "dish_recommender"
  THEN [r \in {"beverage_pairing", END} |-> r]
  ELSE [r \in {END} |-> r]

(***************************************************************************)
(* FoodPairingLangGraphService.execute and the POST handler.               *)
(***************************************************************************)
\* the messages of execute: its own literals, and those of the errors that
\* reach its catch block from validateState and from graph.invoke
ServiceText ==
  [validation |-> JStr("input validation failed: foodIngredients"),
   zodState |-> JStr("ZodError: invalid final state"),
   noResult |-> JStr("no valid recommendation was generated"),
   graphError |-> JStr("graph execution error"),
   execFailed |-> JStr("execution failed, retry later"),
   suggestionPartial |-> JStr("sorry, no complete beverage pairing; these dishes are recommended")]

\* the messages of POST, and the two provider messages it tells apart: one
\* that holds the word "timeout" and one that does not
PostText ==
  [food |-> JStr("provide a valid foodIngredients list"),
   drink |-> JStr("drinkIngredients, when given, must be a non-empty array"),
   failed |-> JStr("recommendation service failed, retry later"),
   timedOut |-> JStr("request timed out, retry later"),
   providerTimeout |-> JStr("Request timeout"),
   providerError |-> JStr("429 rate limit")]

\* mutant: the schema does not ask for at least one food ingredient
validateInputOk_NoMin(input) ==
  /\ input.cuisine.t \in {"string", "null", "undefined"}
  /\ IsStringArray(input.foodIngredients)
  /\ GetThrows(input.drinkIngredients) \/ IsStringArray(input.drinkIngredients)

\* validateInput(input) returns without throwing
validateInputOk(input) ==
  UserInputSchemaOk(IF input.cuisine.t = "undefined" THEN JNull ELSE input.cuisine,
                    input.foodIngredients,
                    IF GetThrows(input.drinkIngredients) THEN JArr(<<>>)
                    ELSE input.drinkIngredients)

Returned(value) == [kind |-> "returned", value |-> value]
Thrown(message) == [kind |-> "thrown", message |-> message]
Pending == [kind |-> "pending"]

\* the catch block of execute: the error is thrown again with its message
ExecuteCatch(message) == Thrown(OrElse(message, ServiceText.execFailed))

\* mutant: whenever the pairing result is missing the dishes are returned as
\* a partial result, without a look at the error or at the dishes
ExecuteResult_AlwaysPartial(finalState) ==
  IF ~validateStateOk(finalState) THEN ExecuteCatch(ServiceText.zodState)
  ELSE LET pairingResult == finalState.agent2Output
           dishes == finalState.agent1Output
       IN IF ~Truthy(pairingResult)
          THEN Returned(PairingResult(ArrayOrEmpty(dishes), <<>>, <<>>,
                                      ServiceText.suggestionPartial))
          ELSE Returned(pairingResult)

\* execute, steps 5 to 7, on the final state of the graph
ExecuteResult(finalState) ==
  IF ~validateStateOk(finalState) THEN ExecuteCatch(ServiceText.zodState)
  ELSE IF Truthy(finalState.error) THEN ExecuteCatch(finalState.error)
       ELSE LET pairingResult == finalState.agent2Output
                dishes == finalState.agent1Output
            IN IF ~Truthy(pairingResult)
               THEN IF Truthy(dishes) /\ Len(dishes.v) > 0
                    THEN Returned(PairingResult(dishes, <<>>, <<>>, ServiceText.suggestionPartial))
                    ELSE ExecuteCatch(ServiceText.noResult)
               ELSE Returned(pairingResult)

\* POST, step 2: the body is rejected with status 400
PostRejects(body) ==
  LET food == body.foodIngredients
      drinks == body.drinkIngredients
  IN IF ~Truthy(food) \/ ~IsArray(food) \/ Len(food.v) = 0 THEN <<PostText.food>>
     ELSE IF drinks.t # "undefined" /\ (~IsArray(drinks) \/ Len(drinks.v) = 0)
          THEN <<PostText.drink>>
          ELSE <<>>

\* POST, step 4: the argument it passes to execute
PostInput(body) ==
  [cuisine |-> OrElse(body.cuisine, JNull),
   foodIngredients |-> body.foodIngredients,
   drinkIngredients |-> OrElse(body.drinkIngredients, JArr(<<>>))]

NoResponse == [status |-> 0]
Failure(status, message) == [status |-> status, success |-> FALSE, error |-> message]
Success(data) == [status |-> 200, success |-> TRUE, data |-> data]

\* POST, steps 4 and 5, on the outcome of execute
PostResponse(out) ==
  IF out.kind = "returned" THEN Success(out.value)
  ELSE IF out.message = PostText.providerTimeout THEN Failure(504, PostText.timedOut)
       ELSE IF out.message = ServiceText.validation THEN Failure(400, out.message)
            ELSE Failure(500, OrElse(out.message, PostText.failed))
(***************************************************************************)
(* Inputs: request bodies and provider outcomes.                           *)
(***************************************************************************)
\* all sequences over S of length at most n
SeqsUpTo(S, n) == UNION {[1..m -> S] : m \in 0..n}

\* the ingredient lists a request may carry: the first n of these
IngredientList == <<JStr("whiskey"), JStr("lemon"), JStr("mint"), JStr("lime")>>
FoodLists == {JArr(SubSeq(IngredientList, 1, n)) : n \in 0..MaxItems}

Body(cuisine, food, drinks) ==
  [cuisine |-> cuisine, foodIngredients |-> food, drinkIngredients |-> drinks]

\* each field is varied with the others held at a plain value
Bodies ==
  {Body(UNDEF, f, UNDEF) : f \in {UNDEF, JArr(<<JNum(1)>>)} \cup FoodLists}
    \cup {Body(JStr("sichuan"), f, UNDEF) : f \in {JArr(<<>>), JArr(<<JStr("whiskey")>>)}}
    \cup {Body(UNDEF, JArr(<<JStr("whiskey")>>), d) :
             d \in {JArr(<<>>), JArr(<<JStr("gin")>>)}}

\* elements a provider may put into the array of dishes
DishElems ==
  {JObj([id |-> JStr("d1"), name |-> JStr("A"), steps |-> JArr(<<JStr("s")>>)]),
   JObj([id |-> JStr(""), cuisine |-> JStr("french"), difficulty |-> JNum(0),
         steps |-> JStr("none")]),
   JNull}

\* a text cut off before its last token
Truncated(toks) == SubSeq(toks, 1, Len(toks) - 1)

\* the texts the Recommender may get: JSON arrays, bare or between prose (with
\* and without brackets in the prose), cut off, and texts without an array
DishTexts ==
  LET arrays == {Render(JArr(s)) : s \in SeqsUpTo(DishElems, MaxElems)}
      before == {<<>>, <<Tok("prose")>>,
                 <<Tok("prose"), Tok("lb"), Tok("prose"), Tok("rb"), Tok("prose")>>}
      after == {<<>>, <<Tok("prose")>>}
  IN {b \o a \o e : b \in before, a \in arrays, e \in after}
       \cup {Truncated(a) : a \in arrays}
       \cup {<<Tok("prose")>>, Render(JObj([name |-> JStr("A")]))}

BeverageElems ==
  {JObj([id |-> JStr("b1"), name |-> JStr("G")]),
   JObj([name |-> JStr("H")]),
   JNull}

ReasonElems ==
  {JObj([id |-> JStr("r1"), dishId |-> JStr("d1"), beverageId |-> JStr("b1")]),
   JObj([dishId |-> JStr("zz")]),
   JNull}

\* the object with these three members, leaving out those that are UNDEF
PairingObject(b, r, o) ==
  LET f == [beverages |-> b, pairingReasons |-> r, overallSuggestion |-> o]
  IN JObj([key \in {x \in DOMAIN f : f[x] # UNDEF} |-> f[key]])

\* each key is varied with the others held at a plain value
PairingObjects ==
  LET b1 == JArr(<<JObj([id |-> JStr("b1"), name |-> JStr("G")])>>)
      r1 == JArr(<<JObj([id |-> JStr("r1"), dishId |-> JStr("d1"),
                         beverageId |-> JStr("b1")])>>)
  IN {PairingObject(b, r1, JStr("enjoy")) :
        b \in {UNDEF, JStr("none")}
              \cup {JArr(s) : s \in SeqsUpTo(BeverageElems, MaxElems)}}
       \cup {PairingObject(b1, r, JStr("enjoy")) :
               r \in {UNDEF, JStr("none")}
                     \cup {JArr(s) : s \in SeqsUpTo(ReasonElems, MaxElems)}}
       \cup {PairingObject(b1, r1, UNDEF), PairingObject(UNDEF, UNDEF, UNDEF)}

PairingTexts ==
  LET objects == {Render(x) : x \in PairingObjects}
  IN objects
       \cup {<<Tok("prose")>> \o x \o <<Tok("prose")>> : x \in objects}
       \cup {Truncated(x) : x \in objects}
       \cup {<<Tok("prose")>>, <<Tok("prose"), Tok("rc"), Tok("prose"), Tok("lc")>>}

ProviderErrors == {Rejects(PostText.providerError), Rejects(PostText.providerTimeout), Rejects(JStr("")),
                   Rejects(UNDEF)}

DishOutcomes == {Text(c) : c \in DishTexts} \cup {Text(<<>>), NoContent} \cup ProviderErrors
BevOutcomes == {Text(c) : c \in PairingTexts} \cup {Text(<<>>), NoContent} \cup ProviderErrors

(***************************************************************************)
(* splitTextIntoChunks of SimplePDFService and PDFService (the two are the *)
(* same).  A text is a sequence of sentences, each a run of characters     *)
(* without sentence punctuation and without space at its ends; between two *)
(* sentences stand a full stop and a space, and a closed text ends with a  *)
(* full stop.  A string is a sequence of pieces: Seg(i, a, b) is the       *)
(* characters a to b of sentence i, Sp a space, Stop a full stop.          *)
(***************************************************************************)
chunkSize == 800
chunkOverlap == 150

Sp == [k |-> "sp"]
Stop == [k |-> "stop"]
Seg(i, a, b) == [k |-> "seg", i |-> i, a |-> a, b |-> b]

\* the lengths of the sentences tried
SentenceLens == {100, 400, 700, 800, 1000}

Texts ==
  [sentences : UNION {[1..n -> SentenceLens] : n \in 1..MaxSentences}, closed : BOOLEAN]

\* the text as a string
RECURSIVE Written(_, _)
Written(text, i) ==
  LET n == Len(text.sentences) IN
  IF i > n THEN <<>>
  ELSE <<Seg(i, 1, text.sentences[i])>>
         \o (IF i < n THEN <<Stop, Sp>> ELSE IF text.closed THEN <<Stop>> ELSE <<>>)
         \o Written(text, i + 1)

\* s.length
RECURSIVE Length(_)
Length(s) ==
  IF s = <<>> THEN 0
  ELSE (IF Head(s).k = "seg" THEN Head(s).b - Head(s).a + 1 ELSE 1) + Length(Tail(s))

\* s.slice(-n): the last n characters, or all of s when it has fewer
RECURSIVE Slice(_, _)
Slice(s, n) ==
  IF n <= 0 \/ s = <<>> THEN <<>>
  ELSE LET last == s[Len(s)]
           l == Length(<<last>>)
       IN IF l >= n
          THEN <<IF last.k = "seg" THEN Seg(last.i, last.b - n + 1, last.b) ELSE last>>
          ELSE Slice(SubSeq(s, 1, Len(s) - 1), n - l) \o <<last>>

\* s.trim()
RECURSIVE Trim(_)
Trim(s) ==
  IF s = <<>> THEN s
  ELSE IF Head(s) = Sp THEN Trim(Tail(s))
       ELSE IF s[Len(s)] = Sp THEN Trim(SubSeq(s, 1, Len(s) - 1))
            ELSE s

\* text.split(/[.!?]\s*/), trimmed, without the empty strings
Sentences(text) == [i \in 1..Len(text.sentences) |-> <<Seg(i, 1, text.sentences[i])>>]

\* a chunk: its content, and (not kept by the code) the overlap text the
\* content starts with
Chunk(content, overlapText) == [content |-> Trim(content), overlap |-> Trim(overlapText)]

NoSplit ==
  [pc |-> "none", text |-> [sentences |-> <<>>, closed |-> FALSE], i |-> 0,
   currentChunk |-> <<>>, overlapText |-> <<>>, chunks |-> <<>>]

(***************************************************************************)
(* State of one request.                                                   *)
(***************************************************************************)
VARIABLES
  entry,      \* "POST": through the route handler; "execute": the service method;
              \* "node": a stage or routing function applied to a given state
  body,       \* the request body, or the argument of execute
  pc,         \* where the request is
  state,      \* the FoodPairingState of the graph
  uuid,       \* number of randomUUID() results drawn
  started,    \* the stages started, in order
  completed,  \* the stages that have returned, in order
  calls,      \* provider calls made, per stage
  inflight,   \* the stages whose provider call is in progress
  stageInput, \* the state the last started stage was given
  lastUpdate, \* what the last completed stage returned
  lastRoute,  \* the last routing decision: the node it followed and its result
  providerSaid, \* what the provider answered to the last completed call
  outcome,    \* how execute ended
  response,   \* what POST answered
  doc,        \* the JSON value a provider was asked for (recoveries only)
  recovered,  \* the recoveries made: shape, form of the text, and result
  memoryStore,      \* ragService: the process-wide index, or null
  lastDocsCount,    \* ragService: documents of the last committed run
  lastChunksCount,  \* ragService: chunks of the last committed run
  loadingProgress,  \* ragService: totalFiles, processedFiles, status
  pdfs,       \* the pdfs directory: whether it exists, and its PDF files
  split,      \* splitTextIntoChunks: its text, its position and its locals
  call        \* the calls into ragService: per caller, its operation, its
              \* position and its local variables

\* the variables of a request, but for the UUID counter
pipeVars == <<entry, body, pc, state, started, completed, calls, inflight,
              stageInput, lastUpdate, lastRoute, providerSaid, outcome, response>>
recVars == <<doc, recovered>>
ragVars == <<memoryStore, lastDocsCount, lastChunksCount, loadingProgress, pdfs, call>>

vars == <<pipeVars, uuid, recVars, ragVars, split>>

(***************************************************************************)
(* ragService: the index, its counters and the loading progress are        *)
(* module-level variables shared by every caller.  A caller is a request   *)
(* that runs the ingestion (POST initialize) or a query.                   *)
(***************************************************************************)
Procs == 1..MaxCallers

\* let retries = 3
RetryBudget == 3

RagText ==
  [notAvailable |-> "Vector store not available",
   noDocuments |-> "No documents to process.",
   processed |-> "Successfully processed the documents",
   pipelineError |-> "An error occurred during the RAG pipeline.",
   initialized |-> "RAG system initialised",
   searchError |-> "similarity search failed"]

\* the pdfs directory as loadDocuments finds it
Dirs ==
  {[exists |-> FALSE, files |-> 0]} \cup {[exists |-> TRUE, files |-> n] : n \in 0..MaxFiles}

IdleProgress == [totalFiles |-> 0, processedFiles |-> 0, status |-> "idle"]

\* loadDocuments up to its await: the progress it writes, and whether it
\* goes on to load files (else it returns no documents)
LoadStart(dir, progress) ==
  IF ~dir.exists THEN [progress |-> progress, loads |-> FALSE]
  ELSE IF dir.files = 0
       THEN [progress |-> [totalFiles |-> 0, processedFiles |-> 0, status |-> "completed"],
             loads |-> FALSE]
       ELSE [progress |-> [totalFiles |-> dir.files, processedFiles |-> 0,
                           status |-> "loading"],
             loads |-> TRUE]

\* the chunks splitDocuments makes of d documents, chunk_0, chunk_1, ...:
\* here two of each document
ChunksOf(d) == [i \in 1..(2 * d) |-> i]

\* vectorStore.addDocuments(chunks): the chunks are embedded in one call and
\* then appended together; when the embedding fails nothing is appended
AddDocuments(store, chunks, ok) == IF ok THEN store \o chunks ELSE store

\* mutant: the loop runs while retries >= 0
AfterAttempt_FourAttempts(ok, retries) ==
  IF ok THEN [next |-> "return", retries |-> retries]
  ELSE IF retries - 1 >= 0 THEN [next |-> "delay", retries |-> retries - 1]
       ELSE [next |-> "throw", retries |-> retries - 1]

\* mutant: the return after a successful insertion is missing
AfterAttempt_NoReturn(ok, retries) ==
  IF retries - 1 > 0
  THEN [next |-> IF ok THEN "retry" ELSE "delay", retries |-> retries - 1]
  ELSE [next |-> IF ok THEN "return" ELSE "throw", retries |-> retries - 1]

\* mutant: the catch block falls through to the return of the store
AfterAttempt_FallThrough(ok, retries) ==
  IF ok THEN [next |-> "return", retries |-> retries]
  ELSE [next |-> "return", retries |-> retries - 1]

\* the loop of createVectorStore after one attempt: return the store, wait
\* and try again, or throw
AfterAttempt(ok, retries) ==
  IF ok THEN [next |-> "return", retries |-> retries]
  ELSE IF retries - 1 > 0 THEN [next |-> "delay", retries |-> retries - 1]
       ELSE [next |-> "throw", retries |-> retries - 1]

\* what runRagPipeline hands to its caller
NoRun == [kind |-> "none"]
RunReturned(success, message) ==
  [kind |-> "returned", success |-> success, message |-> message]

\* what a caller gets: the response of POST initialize, or the value
\* queryVectorStore returns
NoAnswer == [kind |-> "none"]
Initialized == [kind |-> "response", status |-> 200, success |-> TRUE,
                message |-> RagText.initialized]
QueryFailed(error) == [kind |-> "returned", success |-> FALSE, error |-> error]
QueryResults(run) == [kind |-> "returned", success |-> TRUE, from |-> run]

\* a caller before its call
NewCall ==
  [op |-> "none", pc |-> "idle", lazy |-> FALSE, docs |-> 0, vectorStore |-> <<>>,
   retries |-> 0, attempts |-> <<>>, delays |-> 0, searches |-> 0,
   run |-> NoRun, answer |-> NoAnswer]

\* the index object: the run that built it (0: a run before these callers)
\* and its vectors, one for each chunk added
Store(run, vectors) == [run |-> run, vectors |-> vectors]

\* ragService as the module is loaded, with no caller yet
RagIdle ==
  /\ memoryStore = JNull
  /\ lastDocsCount = 0
  /\ lastChunksCount = 0
  /\ loadingProgress = IdleProgress
  /\ pdfs = [exists |-> FALSE, files |-> 0]
  /\ call = [p \in Procs |-> NewCall]

Stages == {"dish_recommender", "beverage_pairing"}

NoState == createInitialState([cuisine |-> UNDEF, foodIngredients |-> UNDEF,
                               drinkIngredients |-> UNDEF])
NoUpdate == [raised |-> FALSE, update |-> <<>>, ctr |-> 0]
NoRoute == [node |-> "none", to |-> "none"]
Silent == [kind |-> "none", block |-> FALSE, records |-> 0, lists |-> {},
           array |-> JNull]


\* what is kept of a provider outcome: its kind, whether its text holds a
\* bracket block (for the Recommender) or a brace block (for Pairing), how
\* many dish records the Recommender's recovery drew from it, which keys
\* of the object parsed for Pairing hold an array, and the array when the
\* text given to the Recommender is a JSON array and nothing else
Said(node, st, out) ==
  IF out.kind # "text" \/ Len(out.content) = 0
  THEN [kind |-> IF out.kind = "throw" THEN "throw" ELSE "empty",
        block |-> FALSE, records |-> 0, lists |-> {}, array |-> JNull]
  ELSE LET open == IF node = "dish_recommender" THEN "lb" ELSE "lc"
           close == IF node = "dish_recommender" THEN "rb" ELSE "rc"
           jsonMatch == GreedyMatch(out.content, open, close)
           parsed == JSONparse(jsonMatch)
           whole == JSONparse(out.content)
       IN [kind |-> "text",
           block |-> jsonMatch # <<>>,
           records |-> IF node = "dish_recommender"
                       THEN Len(parseDishRecommendations(out.content,
                                                         NodeText.defaultCuisine, 0).recs)
                       ELSE 0,
           lists |-> IF node = "dish_recommender" \/ jsonMatch = <<>> \/ ~parsed.ok
                     THEN {}
                     ELSE {key \in {"beverages", "pairingReasons"} :
                             IsArray(Get(parsed.val, key))},
           array |-> IF node = "dish_recommender" /\ whole.ok /\ IsArray(whole.val)
                     THEN whole.val ELSE JNull]

InitHistory ==
  /\ uuid = 0
  /\ started = <<>>
  /\ completed = <<>>
  /\ calls = [s \in Stages |-> 0]
  /\ inflight = {}
  /\ stageInput = NoState
  /\ lastUpdate = NoUpdate
  /\ lastRoute = NoRoute
  /\ providerSaid = Silent
  /\ outcome = Pending
  /\ response = NoResponse
  /\ recovered = <<>>

\* a request arrives
Init ==
  /\ entry \in {"POST", "execute"}
  /\ body \in Bodies
  /\ pc = "request"
  /\ state = NoState
  /\ doc = UNDEF
  /\ InitHistory
  /\ split = NoSplit
  /\ RagIdle
(***************************************************************************)
(* The steps of a request.  A step runs from one await to the next.        *)
(***************************************************************************)
AwaitPc(node) == IF node = "dish_recommender" THEN "dish_llm" ELSE "beverage_llm"
RoutePc(node) == IF node = "dish_recommender" THEN "dish_route" ELSE "beverage_route"

CallsProvider(node, st) ==
  IF node = "dish_recommender" THEN DishCallsProvider(st) ELSE BevCallsProvider(st)

NodeFn(node, st, out, ctr) ==
  IF node = "dish_recommender" THEN dishRecommenderNode(st, out, ctr)
  ELSE beveragePairingNode(st, out, ctr)

\* the argument execute is called with
ExecuteInput == IF entry = "POST" THEN PostInput(body) ELSE body

\* POST answers 400 without calling the service
PostReject ==
  /\ pc = "request"
  /\ entry = "POST"
  /\ PostRejects(body) # <<>>
  /\ response' = Failure(400, PostRejects(body)[1])
  /\ pc' = "done"
  /\ UNCHANGED <<entry, body, state, uuid, started, completed, calls, inflight,
                 stageInput, lastUpdate, lastRoute, providerSaid, outcome>>
  /\ UNCHANGED <<recVars, ragVars, split>>

\* execute, step 1: validateInput throws
ExecuteReject ==
  /\ pc = "request"
  /\ entry = "POST" => PostRejects(body) = <<>>
  /\ ~validateInputOk(ExecuteInput)
  /\ outcome' = ExecuteCatch(ServiceText.validation)
  /\ pc' = "executed"
  /\ UNCHANGED <<entry, body, state, uuid, started, completed, calls, inflight,
                 stageInput, lastUpdate, lastRoute, providerSaid, response>>
  /\ UNCHANGED <<recVars, ragVars, split>>

\* execute, steps 1 to 4: the graph is invoked on the initial state
ExecuteStart ==
  /\ pc = "request"
  /\ entry = "POST" => PostRejects(body) = <<>>
  /\ validateInputOk(ExecuteInput)
  /\ state' = createInitialState(ExecuteInput)
  /\ pc' = EntryPoint
  /\ UNCHANGED <<entry, body, uuid, started, completed, calls, inflight,
                 stageInput, lastUpdate, lastRoute, providerSaid, outcome, response>>
  /\ UNCHANGED <<recVars, ragVars, split>>

\* the graph takes what a stage function handed back
StageCompletes(node, result) ==
  /\ lastUpdate' = result
  /\ uuid' = result.ctr
  /\ completed' = Append(completed, node)
  /\ IF result.raised
     THEN state' = state /\ pc' = "graph_failed"
     ELSE state' = Merge(state, result.update) /\ pc' = RoutePc(node)

\* a stage function runs up to its provider call, or to its end when it makes none
StageStart(node) ==
  /\ pc = node
  /\ started' = Append(started, node)
  /\ stageInput' = state
  /\ IF CallsProvider(node, state)
     THEN /\ calls' = [calls EXCEPT ![node] = @ + 1]
          /\ inflight' = inflight \cup {node}
          /\ pc' = AwaitPc(node)
          /\ UNCHANGED <<state, uuid, completed, lastUpdate>>
     ELSE /\ StageCompletes(node, NodeFn(node, state, NoContent, uuid))
          /\ UNCHANGED <<calls, inflight>>
  /\ UNCHANGED <<entry, body, lastRoute, providerSaid, outcome, response>>
  /\ UNCHANGED <<recVars, ragVars, split>>

\* the provider call settles and the stage function runs to its end
StageReturn(node, out) ==
  /\ pc = AwaitPc(node)
  /\ inflight' = inflight \ {node}
  /\ providerSaid' = Said(node, state, out)
  /\ StageCompletes(node, NodeFn(node, state, out, uuid))
  /\ UNCHANGED <<entry, body, started, calls, stageInput, lastRoute, outcome, response>>
  /\ UNCHANGED <<recVars, ragVars, split>>

\* the conditional edge after a node
Route(node) ==
  /\ pc = RoutePc(node)
  /\ LET r == RouteOf(node, state) IN
     /\ lastRoute' = [node |-> node, to |-> r]
     /\ pc' = IF r \notin DOMAIN PathMap(node) THEN "graph_failed"
              ELSE IF PathMap(node)[r] = END THEN "graph_end"
                   ELSE PathMap(node)[r]
  /\ UNCHANGED <<entry, body, state, uuid, started, completed, calls, inflight,
                 stageInput, lastUpdate, providerSaid, outcome, response>>
  /\ UNCHANGED <<recVars, ragVars, split>>

DishStart == StageStart("dish_recommender")
DishReturn == \E out \in DishOutcomes : StageReturn("dish_recommender", out)
RouteAfterDish == Route("dish_recommender")
BevStart == StageStart("beverage_pairing")
BevReturn == \E out \in BevOutcomes : StageReturn("beverage_pairing", out)
RouteAfterBev == Route("beverage_pairing")

\* execute, steps 5 to 7 and its catch block
ExecuteFinish ==
  /\ pc \in {"graph_end", "graph_failed"}
  /\ entry # "node"
  /\ outcome' = IF pc = "graph_failed" THEN ExecuteCatch(ServiceText.graphError)
                ELSE ExecuteResult(state)
  /\ pc' = "executed"
  /\ UNCHANGED <<entry, body, state, uuid, started, completed, calls, inflight,
                 stageInput, lastUpdate, lastRoute, providerSaid, response>>
  /\ UNCHANGED <<recVars, ragVars, split>>

\* POST answers with the outcome of execute
PostRespond ==
  /\ pc = "executed"
  /\ entry = "POST"
  /\ response' = PostResponse(outcome)
  /\ pc' = "done"
  /\ UNCHANGED <<entry, body, state, uuid, started, completed, calls, inflight,
                 stageInput, lastUpdate, lastRoute, providerSaid, outcome>>
  /\ UNCHANGED <<recVars, ragVars, split>>

Next ==
  \/ PostReject
  \/ ExecuteReject
  \/ ExecuteStart
  \/ DishStart
  \/ DishReturn
  \/ RouteAfterDish
  \/ BevStart
  \/ BevReturn
  \/ RouteAfterBev
  \/ ExecuteFinish
  \/ PostRespond

Spec == Init /\ [][Next]_vars
(***************************************************************************)
(* The stage functions and the routing functions are exported: SpecNode    *)
(* applies them, and the graph from there on, to any FoodPairingState.     *)
(***************************************************************************)
NodeUserInputs ==
  {JNull,
   JObj([cuisine |-> JNull, foodIngredients |-> JNull, drinkIngredients |-> JArr(<<>>)]),
   JObj([cuisine |-> JStr("sichuan"),
         foodIngredients |-> JArr(SubSeq(IngredientList, 1, MaxItems)),
         drinkIngredients |-> JArr(<<JStr("gin")>>)])}

NodeDishes ==
  {JNull, UNDEF, JNum(5), JArr(<<>>), JArr(<<JNull>>)}
    \cup {JArr([i \in 1..n |-> NormalizeDish(JObj([id |-> JStr("d1")]),
                                            NodeText.defaultCuisine, 0)]) : n \in 1..MaxElems}

NodeStates ==
  [userInput : NodeUserInputs,
   agent1Output : NodeDishes,
   agent2Output : {JNull, PairingResult(JArr(<<>>), <<>>, <<>>, NodeText.suggestionFallback)},
   error : {JNull, JStr(""), JStr("boom")},
   metadata : {JObj([model |-> UNDEF])}]

InitNode ==
  /\ entry = "node"
  /\ body = [cuisine |-> UNDEF, foodIngredients |-> UNDEF, drinkIngredients |-> UNDEF]
  /\ pc \in {"dish_recommender", "dish_route", "beverage_pairing", "beverage_route"}
  /\ state \in NodeStates
  /\ doc = UNDEF
  /\ InitHistory
  /\ split = NoSplit
  /\ RagIdle

NextNode ==
  \/ DishStart
  \/ DishReturn
  \/ RouteAfterDish
  \/ BevStart
  \/ BevReturn
  \/ RouteAfterBev

SpecNode == InitNode /\ [][NextNode]_vars

\* every step that can be taken is taken in the end: the event loop runs the
\* continuations that are ready, and a provider call returns or fails
\* (the step in which a provider call settles is the one that takes pc from
\* an await position to a routing position)
FairSpecNode ==
  /\ SpecNode
  /\ WF_vars(DishStart \/ RouteAfterDish \/ BevStart \/ RouteAfterBev)
  /\ WF_pc(/\ pc \in {"dish_llm", "beverage_llm"}
           /\ pc' \in {"dish_route", "beverage_route", "graph_failed"})
FairSpec == Spec /\ WF_vars(Next)
(***************************************************************************)
(* The recoveries as functions of the provider's text.  The provider is    *)
(* asked for a JSON value and writes it in some form: bare, between prose, *)
(* after prose that itself holds brackets or braces, or cut off.           *)
(***************************************************************************)
Forms ==
  {[before |-> <<>>, after |-> <<>>, cut |-> FALSE],
   [before |-> <<Tok("prose")>>, after |-> <<>>, cut |-> FALSE],
   [before |-> <<>>, after |-> <<Tok("prose")>>, cut |-> FALSE]}
    \cup {[before |-> <<Tok("prose"), Tok(o), Tok("prose"), Tok(c), Tok("prose")>>,
           after |-> <<>>, cut |-> FALSE] : <<o, c>> \in {<<"lb", "rb">>, <<"lc", "rc">>}}
    \cup {[before |-> <<>>, after |-> <<>>, cut |-> TRUE]}

\* the text that writes value x in form f; UNDEF is written as nothing
Embed(f, x) ==
  LET json == IF x = UNDEF THEN <<>> ELSE Render(x)
  IN f.before \o (IF f.cut THEN Truncated(json) ELSE json) \o f.after

\* the values asked for: arrays of dishes (with an element that is no
\* object), pairing objects, a plain sentence, and nothing at all
RecoverDocs ==
  {JArr(q) : q \in SeqsUpTo(DishElems \cup {JStr("pasta")}, MaxElems)}
    \cup PairingObjects
    \cup {JStr("sorry"), UNDEF}

\* largest number of recoveries of one value
MaxRecoveries == 2

InitRecover ==
  /\ entry = "recover"
  /\ body = [cuisine |-> UNDEF, foodIngredients |-> UNDEF, drinkIngredients |-> UNDEF]
  /\ pc = "recover"
  /\ state = NoState
  /\ doc \in RecoverDocs
  /\ InitHistory
  /\ split = NoSplit
  /\ RagIdle

\* one call of a recovery on a text that writes doc
Recover ==
  \E shape \in {"array", "object", "recipes"}, form \in Forms :
    LET r == recover(shape, Embed(form, doc), uuid) IN
    /\ Len(recovered) < MaxRecoveries
    /\ recovered # <<>> => shape = recovered[1].shape
    /\ recovered' = Append(recovered, [shape |-> shape, form |-> form,
                                       raised |-> r.raised, value |-> r.recs])
    /\ uuid' = r.ctr
    /\ UNCHANGED <<pipeVars, doc, ragVars, split>>

SpecRecover == InitRecover /\ [][Recover]_vars

(***************************************************************************)
(* The calls into ragService.  A step runs from one await to the next;     *)
(* the callers' steps interleave.                                          *)
(***************************************************************************)
\* the module as it is loaded, or as an earlier run of one document left it
InitRag ==
  /\ entry = "rag"
  /\ body = [cuisine |-> UNDEF, foodIngredients |-> UNDEF, drinkIngredients |-> UNDEF]
  /\ pc = "rag"
  /\ state = NoState
  /\ doc = UNDEF
  /\ InitHistory
  /\ split = NoSplit
  /\ pdfs \in Dirs
  /\ call = [p \in Procs |-> NewCall]
  /\ \/ /\ memoryStore = JNull
        /\ lastDocsCount = 0
        /\ lastChunksCount = 0
        /\ loadingProgress = IdleProgress
     \/ /\ memoryStore = Store(0, ChunksOf(1))
        /\ lastDocsCount = 1
        /\ lastChunksCount = Len(ChunksOf(1))
        /\ loadingProgress = [totalFiles |-> 1, processedFiles |-> 0,
                              status |-> "processing"]

RagUnchanged == UNCHANGED <<pipeVars, uuid, recVars, split>>

\* runRagPipeline up to the await of loadDocuments, in call p
RunStart(p, op, lazy) ==
  LET dir == pdfs
      load == LoadStart(dir, loadingProgress) IN
  /\ loadingProgress' = load.progress
  /\ call' = [call EXCEPT ![p] =
                [@ EXCEPT !.op = op, !.lazy = lazy,
                          !.pc = IF load.loads THEN "loading" ELSE "ran",
                          !.docs = dir.files,
                          !.run = IF load.loads THEN NoRun
                                  ELSE RunReturned(TRUE, RagText.noDocuments)]]

\* POST initialize: runRagPipeline is called
Initialize(p) ==
  /\ call[p].pc = "idle"
  /\ \A q \in Procs : q < p => call[q].pc # "idle"
  /\ RunStart(p, "initialize", FALSE)
  /\ UNCHANGED <<memoryStore, lastDocsCount, lastChunksCount, pdfs>>
  /\ RagUnchanged

\* mutant: queryVectorStore runs the pipeline whether or not there is an index
Query_AlwaysRuns(p) ==
  /\ call[p].pc = "idle"
  /\ \A q \in Procs : q < p => call[q].pc # "idle"
  /\ RunStart(p, "query", TRUE)
  /\ UNCHANGED <<memoryStore, lastDocsCount, lastChunksCount, pdfs>>
  /\ RagUnchanged

\* queryVectorStore is called: with no index it runs the pipeline first
Query(p) ==
  /\ call[p].pc = "idle"
  /\ \A q \in Procs : q < p => call[q].pc # "idle"
  /\ IF memoryStore = JNull
     THEN RunStart(p, "query", TRUE)
     ELSE /\ call' = [call EXCEPT ![p] = [@ EXCEPT !.op = "query", !.pc = "searching",
                                                    !.searches = memoryStore.run]]
          /\ UNCHANGED loadingProgress
  /\ UNCHANGED <<memoryStore, lastDocsCount, lastChunksCount, pdfs>>
  /\ RagUnchanged

\* loader.load() settles: loadDocuments returns the documents or throws, and
\* runRagPipeline goes on to splitDocuments or catches the error
Loaded(p, ok) ==
  /\ call[p].pc = "loading"
  /\ loadingProgress' = [loadingProgress EXCEPT !.status = IF ok THEN "completed"
                                                           ELSE "error"]
  /\ call' = [call EXCEPT ![p] =
                IF ok THEN [@ EXCEPT !.pc = "splitting"]
                ELSE [@ EXCEPT !.pc = "ran",
                               !.run = RunReturned(FALSE, RagText.pipelineError)]]
  /\ UNCHANGED <<memoryStore, lastDocsCount, lastChunksCount, pdfs>>
  /\ RagUnchanged

\* splitDocuments settles; createVectorStore starts and makes its first attempt
Split(p) ==
  /\ call[p].pc = "splitting"
  /\ loadingProgress' = [loadingProgress EXCEPT !.status = "processing"]
  /\ call' = [call EXCEPT ![p] = [@ EXCEPT !.pc = "adding", !.vectorStore = <<>>,
                                           !.retries = RetryBudget]]
  /\ UNCHANGED <<memoryStore, lastDocsCount, lastChunksCount, pdfs>>
  /\ RagUnchanged

\* vectorStore.addDocuments settles
Attempt(p, ok) ==
  /\ call[p].pc = "adding"
  /\ LET after == AfterAttempt(ok, call[p].retries) IN
     call' = [call EXCEPT ![p] =
               [@ EXCEPT !.vectorStore = AddDocuments(@, ChunksOf(call[p].docs), ok),
                         !.attempts = Append(@, ok),
                         !.retries = after.retries,
                         !.delays = IF after.next = "delay" THEN @ + 1 ELSE @,
                         !.pc = CASE after.next = "return" -> "built"
                                  [] after.next = "delay" -> "waiting"
                                  [] after.next = "retry" -> "adding"
                                  [] after.next = "throw" -> "ran",
                         !.run = IF after.next = "throw"
                                 THEN RunReturned(FALSE, RagText.pipelineError)
                                 ELSE @]]
  /\ UNCHANGED <<memoryStore, lastDocsCount, lastChunksCount, loadingProgress, pdfs>>
  /\ RagUnchanged

\* the delay between two attempts is over
DelayOver(p) ==
  /\ call[p].pc = "waiting"
  /\ call' = [call EXCEPT ![p] = [@ EXCEPT !.pc = "adding"]]
  /\ UNCHANGED <<memoryStore, lastDocsCount, lastChunksCount, loadingProgress, pdfs>>
  /\ RagUnchanged

\* mutant: the counts are not assigned with the store
Commit_StoreOnly(p) ==
  /\ call[p].pc = "built"
  /\ memoryStore' = Store(p, call[p].vectorStore)
  /\ call' = [call EXCEPT ![p] = [@ EXCEPT !.pc = "ran",
                                           !.run = RunReturned(TRUE, RagText.processed)]]
  /\ UNCHANGED <<lastDocsCount, lastChunksCount, loadingProgress, pdfs>>
  /\ RagUnchanged

\* runRagPipeline resumes with the store createVectorStore returned
Commit(p) ==
  /\ call[p].pc = "built"
  /\ memoryStore' = Store(p, call[p].vectorStore)
  /\ lastDocsCount' = call[p].docs
  /\ lastChunksCount' = Len(ChunksOf(call[p].docs))
  /\ call' = [call EXCEPT ![p] = [@ EXCEPT !.pc = "ran",
                                           !.run = RunReturned(TRUE, RagText.processed)]]
  /\ UNCHANGED <<loadingProgress, pdfs>>
  /\ RagUnchanged

\* mutant: queryVectorStore looks at the index only, not at the result
RunReturns_IgnoresResult(p) ==
  /\ call[p].pc = "ran"
  /\ call' = [call EXCEPT ![p] =
                IF call[p].op = "initialize"
                THEN [@ EXCEPT !.pc = "done", !.answer = Initialized]
                ELSE IF memoryStore = JNull
                     THEN [@ EXCEPT !.pc = "done",
                                    !.answer = QueryFailed(RagText.notAvailable)]
                     ELSE [@ EXCEPT !.pc = "searching", !.searches = memoryStore.run]]
  /\ UNCHANGED <<memoryStore, lastDocsCount, lastChunksCount, loadingProgress, pdfs>>
  /\ RagUnchanged

\* the caller of runRagPipeline resumes: POST initialize answers, and
\* queryVectorStore looks at the result and at the index
RunReturns(p) ==
  /\ call[p].pc = "ran"
  /\ call' = [call EXCEPT ![p] =
                IF call[p].op = "initialize"
                THEN [@ EXCEPT !.pc = "done", !.answer = Initialized]
                ELSE IF ~call[p].run.success \/ memoryStore = JNull
                     THEN [@ EXCEPT !.pc = "done",
                                    !.answer = QueryFailed(RagText.notAvailable)]
                     ELSE [@ EXCEPT !.pc = "searching", !.searches = memoryStore.run]]
  /\ UNCHANGED <<memoryStore, lastDocsCount, lastChunksCount, loadingProgress, pdfs>>
  /\ RagUnchanged

\* memoryStore.similaritySearchWithScore settles
Search(p, ok) ==
  /\ call[p].pc = "searching"
  /\ call' = [call EXCEPT ![p] =
                [@ EXCEPT !.pc = "done",
                          !.answer = IF ok THEN QueryResults(call[p].searches)
                                     ELSE QueryFailed(RagText.searchError)]]
  /\ UNCHANGED <<memoryStore, lastDocsCount, lastChunksCount, loadingProgress, pdfs>>
  /\ RagUnchanged

\* getRagStatus: what it reports of the index and the counts
getRagStatus ==
  [initialized |-> memoryStore # JNull, docs |-> lastDocsCount,
   chunks |-> lastChunksCount, loadingProgress |-> loadingProgress]

NextRag ==
  \E p \in Procs :
    \/ Initialize(p)
    \/ Query(p)
    \/ \E ok \in BOOLEAN : Loaded(p, ok)
    \/ Split(p)
    \/ \E ok \in BOOLEAN : Attempt(p, ok)
    \/ DelayOver(p)
    \/ Commit(p)
    \/ RunReturns(p)
    \/ \E ok \in BOOLEAN : Search(p, ok)

SpecRag == InitRag /\ [][NextRag]_vars

(***************************************************************************)
(* splitTextIntoChunks, one iteration of its loop at a time.               *)
(***************************************************************************)
InitSplit ==
  /\ entry = "split"
  /\ body = [cuisine |-> UNDEF, foodIngredients |-> UNDEF, drinkIngredients |-> UNDEF]
  /\ pc = "split"
  /\ state = NoState
  /\ doc = UNDEF
  /\ InitHistory
  /\ RagIdle
  /\ \E text \in Texts :
       split = [NoSplit EXCEPT !.pc = "loop", !.text = text, !.i = 1]

SplitUnchanged == UNCHANGED <<pipeVars, uuid, recVars, ragVars>>

\* the body of the for loop, for sentence i
SplitSentence ==
  LET sentence == Sentences(split.text)[split.i]
      currentChunk == split.currentChunk
  IN
  /\ split.pc = "loop"
  /\ split.i <= Len(split.text.sentences)
  /\ IF Length(currentChunk) + Length(sentence) > chunkSize /\ Length(currentChunk) > 0
     THEN LET overlapText == Slice(currentChunk, chunkOverlap) IN
          split' = [split EXCEPT
                      !.chunks = Append(@, Chunk(currentChunk, split.overlapText)),
                      !.overlapText = overlapText,
                      !.currentChunk = overlapText \o <<Sp>> \o sentence,
                      !.i = @ + 1]
     ELSE split' = [split EXCEPT
                      !.currentChunk = currentChunk
                                         \o (IF currentChunk # <<>> THEN <<Sp>> ELSE <<>>)
                                         \o sentence,
                      !.i = @ + 1]
  /\ SplitUnchanged

\* after the loop: the last chunk is added and the chunks are returned
SplitReturn ==
  /\ split.pc = "loop"
  /\ split.i > Len(split.text.sentences)
  /\ split' = [split EXCEPT
                 !.pc = "returned",
                 !.chunks = IF Trim(split.currentChunk) # <<>>
                            THEN Append(@, Chunk(split.currentChunk, split.overlapText))
                            ELSE @]
  /\ SplitUnchanged

NextSplit == SplitSentence \/ SplitReturn

SpecSplit == InitSplit /\ [][NextSplit]_vars

(***************************************************************************)
(* Claims.                                                                 *)
(***************************************************************************)
Range(q) == {q[i] : i \in 1..Len(q)}
Last(q) == q[Len(q)]
Occurrences(q, x) == Cardinality({i \in 1..Len(q) : q[i] = x})

\* the Recommender Stage yielded zero records: agent1Output is absent, not a
\* sequence, or empty
ZeroRecords(st) ==
  \/ st.agent1Output.t # "array"
  \/ Len(st.agent1Output.v) = 0

\* C1: once state.error holds a non-empty message, no step of the request
\* starts a stage function.
C1_NoStageAfterError ==
  [][Truthy(state.error) => started' = started]_vars

\* the Recommender set the error and execute ended without the Pairing Stage
C1_Witness ==
  /\ pc = "executed"
  /\ Truthy(state.error)
  /\ started = <<"dish_recommender">>

\* C2: on a state without dish records the routing function after the
\* Recommender Stage returns END, with or without an error, the graph ends
\* there, and the Pairing Stage is not started.
C2_RouteStep ==
  (pc = "dish_route" /\ ZeroRecords(state))
    => /\ lastRoute' = [node |-> "dish_recommender", to |-> END]
       /\ pc' = "graph_end"
       /\ started' = started
C2_ZeroRecordsTerminal ==
  /\ [][C2_RouteStep]_vars
  /\ []((lastRoute.node = "dish_recommender" /\ ZeroRecords(state))
          => (lastRoute.to = END /\ "beverage_pairing" \notin Range(started)))

\* the routing function was applied to a state with no records and no error
C2_Witness ==
  /\ lastRoute = [node |-> "dish_recommender", to |-> END]
  /\ ZeroRecords(state)
  /\ ~Truthy(state.error)
  /\ pc = "graph_end"

\* the request carries an empty list of food ingredients
EmptyItems == IsArray(body.foodIngredients) /\ Len(body.foodIngredients.v) = 0

\* C3: a request whose foodIngredients is empty starts no stage and makes no
\* provider call, and ends with the input-validation error: POST answers 400
\* without calling the service, execute throws the validation error.
C3_EmptyItemsRejected ==
  EmptyItems =>
    /\ started = <<>>
    /\ \A s \in Stages : calls[s] = 0
    /\ pc \in {"request", "executed", "done"}
    /\ pc # "request" =>
         IF entry = "POST"
         THEN outcome = Pending /\ response = Failure(400, PostText.food)
         ELSE outcome = Thrown(ServiceText.validation)

\* execute was called with an empty list and threw
C3_Witness ==
  /\ EmptyItems
  /\ entry = "execute"
  /\ pc = "executed"
  /\ outcome = Thrown(ServiceText.validation)

\* C4: at most one stage and at most one provider call are in progress, each
\* stage calls the provider at most once, and once the Pairing Stage has
\* started the Recommender Stage has returned and its one provider call is over.
C4_StagesInSequence ==
  /\ Cardinality(inflight) <= 1
  /\ Len(started) - Len(completed) \in {0, 1}
  /\ \A s \in Stages : calls[s] <= 1
  /\ "beverage_pairing" \in Range(started) =>
       /\ started[1] = "dish_recommender"
       /\ completed # <<>>
       /\ completed[1] = "dish_recommender"
       /\ calls["dish_recommender"] = 1
       /\ "dish_recommender" \notin inflight

\* the provider call of the Pairing Stage is in progress
C4_Witness ==
  /\ pc = "beverage_llm"
  /\ inflight = {"beverage_pairing"}
  /\ completed = <<"dish_recommender">>

\* C5: the routing function after the Pairing Stage returns END on every
\* state and the graph ends there; no stage runs twice; and every run of the
\* graph ends, provided every provider call returns or fails.
C5_RouteStep ==
  pc = "beverage_route" =>
    /\ lastRoute' = [node |-> "beverage_pairing", to |-> END]
    /\ pc' = "graph_end"
C5_PairingAlwaysTerminal ==
  /\ [][C5_RouteStep]_vars
  /\ [](pc = "beverage_route" => shouldFinishPairing(state) = END)
  /\ [](\A s \in Stages : Occurrences(started, s) <= 1)
  /\ <>(pc = "graph_end")

\* the routing function ended the graph on a state with neither an error nor
\* a pairing result
C5_Witness ==
  /\ lastRoute = [node |-> "beverage_pairing", to |-> END]
  /\ pc = "graph_end"
  /\ ~Truthy(state.error)
  /\ ~Truthy(state.agent2Output)
\* the Recommender Stage succeeded and the Pairing Stage then failed
PairingFailedAfterDishes ==
  /\ completed = <<"dish_recommender", "beverage_pairing">>
  /\ ~ZeroRecords(state)
  /\ Truthy(state.error)

\* C6: when the Recommender Stage succeeded and the Pairing Stage failed,
\* execute returns a result that holds the Recommender's records; it does not
\* throw.
C6_PartialResultReturned ==
  (pc \in {"executed", "done"} /\ PairingFailedAfterDishes)
    => /\ outcome.kind = "returned"
       /\ Get(outcome.value, "dishes") = state.agent1Output

\* the key of the state a stage writes its output to
OutputKey(node) ==
  IF node = "dish_recommender" THEN "agent1Output" ELSE "agent2Output"

\* a non-empty string
IsMessage(x) == x.t = "string" /\ x.v # ""

\* C7: a stage function always returns an update and never raises; the update
\* either carries the stage's output and no error, or carries a non-empty
\* error message.
C7_StagesNeverRaise ==
  completed # <<>> =>
    LET u == lastUpdate.update
        key == OutputKey(Last(completed))
    IN /\ ~lastUpdate.raised
       /\ pc # "graph_failed"
       /\ \/ (key \in DOMAIN u /\ Truthy(u[key]) /\ "error" \notin DOMAIN u)
          \/ ("error" \in DOMAIN u /\ IsMessage(u.error))

\* the provider call of the Recommender was rejected with an error that has
\* no message, and the stage returned its own message
C7_Witness ==
  /\ completed = <<"dish_recommender">>
  /\ providerSaid.kind = "throw"
  /\ lastUpdate = Returns([error |-> NodeText.dishFailed, agent1Output |-> JNull], 0)

\* C9: when the provider's text is not empty and the recovery draws no record
\* from it, the Recommender's update is the "no valid dishes" error with a
\* null agent1Output, the state holds them, and the Pairing Stage is not
\* started.
C9_NoRecordsIsError ==
  (completed # <<>> /\ completed[1] = "dish_recommender"
     /\ providerSaid.kind = "text" /\ providerSaid.records = 0
     /\ Len(completed) = 1)
    => /\ lastUpdate.update = [error |-> NodeText.noValidDishes, agent1Output |-> JNull]
       /\ state.error = NodeText.noValidDishes
       /\ state.agent1Output = JNull
       /\ "beverage_pairing" \notin Range(started)
       /\ pc \in {"dish_route", "graph_end", "executed", "done"}

\* the provider answered prose without a bracket block and the graph ended
C9_Witness ==
  /\ completed = <<"dish_recommender">>
  /\ providerSaid = [kind |-> "text", block |-> FALSE, records |-> 0, lists |-> {},
                  array |-> JNull]
  /\ state.error = NodeText.noValidDishes
  /\ pc = "graph_end"

\* the state a stage was given has no dish records: null, undefined or []
NoDishes(st) ==
  \/ st.agent1Output.t \in {"null", "undefined"}
  \/ st.agent1Output = JArr(<<>>)

\* C10: the Pairing Stage, given a state without dish records, makes no
\* provider call and returns an update with a non-empty error, which is the
\* "missing dishes" message whenever the state has a userInput.
C10_MissingDishesNoCall ==
  (started # <<>> /\ Last(started) = "beverage_pairing" /\ NoDishes(stageInput))
    => /\ calls["beverage_pairing"] = 0
       /\ inflight = {}
       /\ completed # <<>> /\ Last(completed) = "beverage_pairing"
       /\ "error" \in DOMAIN lastUpdate.update
       /\ IsMessage(lastUpdate.update.error)
       /\ ~GetThrows(stageInput.userInput)
            => lastUpdate.update = [error |-> NodeText.missingDishes, agent2Output |-> JNull]

\* the Pairing Stage was run on an empty list of dishes
C10_Witness ==
  /\ started = <<"beverage_pairing">>
  /\ stageInput.agent1Output = JArr(<<>>)
  /\ lastUpdate.update = [error |-> NodeText.missingDishes, agent2Output |-> JNull]
  /\ calls["beverage_pairing"] = 0

\* C11: when the Pairing Stage called the provider (its dishes are a
\* non-empty list of records) and got a non-empty text, it returns an update
\* without an error whose agent2Output is a result object holding the dishes
\* it was given and two sequences; a collection that the text does not give
\* as a sequence (no JSON object, a parse failure, a missing key, a value
\* that is not an array) is the empty sequence.
C11_PairingDegrades ==
  (completed # <<>> /\ Last(completed) = "beverage_pairing"
     /\ calls["beverage_pairing"] = 1 /\ providerSaid.kind = "text")
    => LET u == lastUpdate.update
       IN /\ ~lastUpdate.raised
          /\ DOMAIN u = {"agent2Output", "metadata"}
          /\ u.agent2Output.t = "object"
          /\ ~ZeroRecords(stageInput)
          /\ Get(u.agent2Output, "dishes") = stageInput.agent1Output
          /\ \A key \in {"beverages", "pairingReasons"} :
               /\ IsArray(Get(u.agent2Output, key))
               /\ key \notin providerSaid.lists
                    => Get(u.agent2Output, key) = JArr(<<>>)
          /\ state.agent2Output = u.agent2Output

\* the provider answered the Pairing Stage with prose that holds no JSON object
C11_Witness ==
  /\ completed # <<>> /\ Last(completed) = "beverage_pairing"
  /\ providerSaid = [kind |-> "text", block |-> FALSE, records |-> 0, lists |-> {},
                  array |-> JNull]
  /\ lastUpdate.update.agent2Output
       = PairingResult(stageInput.agent1Output, <<>>, <<>>, NodeText.suggestionFallback)

\* the dishes of a result: its list of primary records
PrimaryRecords(result) == Get(result, "dishes")

\* C12: a call of execute that has ended either returned a result whose
\* dishes are a non-empty list (its beverages and pairing reasons may be
\* empty) or threw an error with a non-empty message, and POST answers 200
\* with that result or an error status with a non-empty message.
C12_ResultOrError ==
  /\ pc \in {"executed", "done"} /\ outcome # Pending =>
       \/ /\ outcome.kind = "returned"
          /\ IsArray(PrimaryRecords(outcome.value))
          /\ Len(PrimaryRecords(outcome.value).v) > 0
          /\ IsArray(Get(outcome.value, "beverages"))
          /\ IsArray(Get(outcome.value, "pairingReasons"))
       \/ outcome.kind = "thrown" /\ IsMessage(outcome.message)
  /\ pc = "done" =>
       IF response.status = 200
       THEN /\ outcome.kind = "returned"
            /\ response = Success(outcome.value)
       ELSE /\ response.status \in {400, 500, 504}
            /\ ~response.success
            /\ IsMessage(response.error)

\* execute returned dishes with an empty contribution of the Pairing Stage
C12_Witness ==
  /\ pc = "done"
  /\ response.status = 200
  /\ Len(PrimaryRecords(outcome.value).v) > 0
  /\ Get(outcome.value, "beverages") = JArr(<<>>)

\* the block a recovery of this shape looks for in a text
BlockOf(shape, text) ==
  IF shape = "object" THEN GreedyMatch(text, "lc", "rc") ELSE GreedyMatch(text, "lb", "rb")

HasNull(x) == IsArray(x) /\ \E i \in 1..Len(x.v) : x.v[i] = JNull

\* the worst cases of a recovery: no block, a block that is not JSON, or a
\* null among the elements to normalise; for the recipes, whose fallback
\* reads the lines of the text, also no line that holds "name"
WorstCase(shape, text) ==
  LET block == BlockOf(shape, text)
      parsed == JSONparse(block)
  IN CASE shape = "array" -> block = <<>> \/ ~parsed.ok \/ HasNull(parsed.val)
       [] shape = "object" ->
            \/ block = <<>>
            \/ ~parsed.ok
            \/ HasNull(Get(parsed.val, "beverages"))
            \/ HasNull(Get(parsed.val, "pairingReasons"))
       [] shape = "recipes" ->
            /\ block = <<>> \/ ~parsed.ok
            /\ \A i \in 1..Len(text) : text[i].k # "key"

IsSequence(q) == DOMAIN q = 1..Len(q)

\* C13: no recovery raises, whatever the text; each returns a sequence of
\* records (array shape) or a result object with two sequences (object
\* shape), and in the worst cases the empty sequence or the object with
\* empty sequences.
C13_RecoveryNeverRaises ==
  \A i \in 1..Len(recovered) :
    LET r == recovered[i]
        worst == WorstCase(r.shape, Embed(r.form, doc))
    IN /\ ~r.raised
       /\ IF r.shape = "object"
          THEN /\ r.value.t = "object"
               /\ IsArray(Get(r.value, "beverages"))
               /\ IsArray(Get(r.value, "pairingReasons"))
               /\ worst => r.value = PairingResult(JArr(<<>>), <<>>, <<>>,
                                                   NodeText.suggestionFallback)
          ELSE /\ IsSequence(r.value)
               /\ worst => r.value = <<>>

\* a cut-off array of dishes and an array with a null element were recovered
\* as the empty list
C13_Witness ==
  /\ Len(recovered) = 2
  /\ recovered[1].shape = "array"
  /\ IsArray(doc) /\ HasNull(doc)
  /\ recovered[1].form.cut /\ recovered[1].value = <<>>
  /\ ~recovered[2].form.cut /\ recovered[2].value = <<>>

\* two recoveries of the elements src gave the same records: as many, the
\* same fields and values, the id of the source where it gives one, and two
\* different fresh ids where it gives none (or an empty one)
SameRecords(shape, a, b, src) ==
  /\ Len(a) = Len(b)
  /\ \A i \in 1..Len(a) :
       IF shape = "recipes" THEN a[i] = b[i]
       ELSE /\ DOMAIN a[i].f = DOMAIN b[i].f
            /\ \A key \in DOMAIN a[i].f \ {"id"} : a[i].f[key] = b[i].f[key]
            /\ IF Truthy(Get(src[i], "id"))
               THEN a[i].f.id = src[i].f.id /\ b[i].f.id = src[i].f.id
               ELSE /\ a[i].f.id.t = "uuid" /\ b[i].f.id.t = "uuid"
                    /\ a[i].f.id # b[i].f.id

\* the prose around the JSON holds no bracket, and the JSON is written whole
NoBracket(form) ==
  /\ ~form.cut
  /\ \A i \in 1..Len(form.before) : form.before[i].k \notin {"lb", "rb"}
  /\ \A i \in 1..Len(form.after) : form.after[i].k \notin {"lb", "rb"}

\* C14 (as claimed): two recoveries of the same JSON array, each written
\* whole in whatever prose, give the same records but for fresh ids.
C14_ProseNeverMatters ==
  \A i, j \in 1..Len(recovered) :
    (i < j /\ IsArray(doc) /\ recovered[i].shape \in {"array", "recipes"}
       /\ ~recovered[i].form.cut /\ ~recovered[j].form.cut)
      => SameRecords(recovered[i].shape, recovered[i].value, recovered[j].value, doc.v)

\* C14 (amended): two recoveries of the same JSON array, each written whole
\* in prose that holds no bracket, give the same records but for fresh ids.
C14_BracketFreeProse ==
  \A i, j \in 1..Len(recovered) :
    (i < j /\ IsArray(doc) /\ recovered[i].shape \in {"array", "recipes"}
       /\ NoBracket(recovered[i].form) /\ NoBracket(recovered[j].form))
      => SameRecords(recovered[i].shape, recovered[i].value, recovered[j].value, doc.v)

\* an array whose first dish has an empty id was recovered bare and after
\* prose: the same records, with two different fresh ids
C14_Witness ==
  /\ Len(recovered) = 2
  /\ recovered[1].shape = "array"
  /\ recovered[1].form.before = <<>> /\ recovered[2].form.before = <<Tok("prose")>>
  /\ IsArray(doc) /\ Len(doc.v) > 0 /\ Get(doc.v[1], "id") = JStr("")
  /\ Len(recovered[1].value) = Len(doc.v)
  /\ recovered[1].value[1].f.id = JUuid(1)
  /\ recovered[2].value[1].f.id # JUuid(1)
  /\ recovered[2].value[1].f.name = recovered[1].value[1].f.name

\* every record of the sequence has a non-empty id, and no two share one
UniqueIds(q) ==
  /\ \A i \in 1..Len(q) : Truthy(Get(q[i], "id"))
  /\ \A i, j \in 1..Len(q) : i # j => Get(q[i], "id") # Get(q[j], "id")

\* C15: in every recovered collection (the dishes; the beverages and the
\* pairing reasons of a pairing) each record has a non-empty id and the ids
\* are pairwise different.
C15_IdsUnique ==
  \A i \in 1..Len(recovered) :
    LET r == recovered[i] IN
    /\ r.shape = "array" => UniqueIds(r.value)
    /\ r.shape = "object" => /\ UniqueIds(Get(r.value, "beverages").v)
                             /\ UniqueIds(Get(r.value, "pairingReasons").v)

\* the attempts of a call so far ended with a successful one
Inserted(c) == c.attempts # <<>> /\ c.attempts[Len(c.attempts)]
\* every attempt of the retry budget was made and failed
AllFailed(c) ==
  /\ Len(c.attempts) = RetryBudget
  /\ \A i \in 1..Len(c.attempts) : ~c.attempts[i]

\* C16: the store an insertion hands over, and the index committed from it,
\* holds each chunk of the run exactly once, whether the insertion succeeded
\* at the first attempt or after one or two failed attempts: the same
\* content in every case, nothing left over from a failed attempt.
C16_NoResidue ==
  \A p \in Procs :
    /\ Inserted(call[p]) => call[p].vectorStore = ChunksOf(call[p].docs)
    /\ (memoryStore # JNull /\ memoryStore.run = p)
         => memoryStore.vectors = ChunksOf(call[p].docs)

\* an insertion that succeeded at attempt 3 next to one that succeeded at
\* attempt 1, with the same store
C16_Witness ==
  \E p, q \in Procs :
    /\ call[p].attempts = <<FALSE, FALSE, TRUE>>
    /\ call[q].attempts = <<TRUE>>
    /\ call[p].docs > 0
    /\ call[p].vectorStore = call[q].vectorStore
    /\ memoryStore = Store(p, ChunksOf(call[p].docs))

\* C17: no step of a run whose attempts have all failed changes the index
\* or the counts kept with it; after a run with three failed attempts the
\* index is not one of that run.
C17_FailedRunKeepsIndex ==
  [][\A p \in Procs :
       (call'[p] # call[p] /\ ~Inserted(call'[p]))
         => /\ UNCHANGED <<memoryStore, lastDocsCount, lastChunksCount>>
            /\ AllFailed(call'[p])
                 => (memoryStore' = JNull \/ memoryStore'.run # p)]_vars

\* a run of two documents failed three times and returned; the index of the
\* earlier run of one document is still there with its counts
C17_Witness ==
  \E p \in Procs :
    /\ AllFailed(call[p])
    /\ call[p].pc = "done"
    /\ call[p].docs = 2
    /\ memoryStore = Store(0, ChunksOf(1))
    /\ lastDocsCount = 1
    /\ lastChunksCount = 2

\* C18: a run whose three attempts failed raises to its caller.
C18_FailedRunRaises ==
  \A p \in Procs :
    (AllFailed(call[p]) /\ call[p].pc \in {"ran", "searching", "done"})
      => call[p].run.kind = "raised"

\* the lazily triggered runs in progress
LazyRuns ==
  {p \in Procs : call[p].lazy
                 /\ call[p].pc \in {"loading", "splitting", "adding", "waiting", "built"}}

\* C19: at most one lazily triggered ingestion run is in progress.
C19_OneLazyRun == Cardinality(LazyRuns) <= 1

\* C20 as stated: a query on a never-built index is never answered with the
\* index-not-ready failure.
C20_NeverNotReady ==
  \A p \in Procs :
    (call[p].lazy /\ call[p].pc = "done")
      => call[p].answer # QueryFailed(RagText.notAvailable)

\* C20 amended: a query on a never-built index runs an ingestion first and
\* returns a value; when the ingestion failed the value is the failure
\* "Vector store not available"; when the ingestion built the index the
\* query searches an index; when it found no documents the query gets that
\* failure too unless an index exists by then.
C20_LazyQueryAnswer ==
  \A p \in Procs :
    (call[p].lazy /\ call[p].pc = "done")
      => /\ call[p].run.kind = "returned"
         /\ call[p].answer.kind = "returned"
         /\ ~call[p].run.success
              => call[p].answer = QueryFailed(RagText.notAvailable)
         /\ call[p].run = RunReturned(TRUE, RagText.processed)
              => call[p].answer # QueryFailed(RagText.notAvailable)
         /\ (call[p].run = RunReturned(TRUE, RagText.noDocuments)
               /\ call[p].answer # QueryFailed(RagText.notAvailable))
              => memoryStore # JNull

\* a query found no index, its ingestion found no documents, and it got the
\* failure
C20_Witness ==
  \E p \in Procs :
    /\ call[p].lazy
    /\ call[p].pc = "done"
    /\ call[p].run = RunReturned(TRUE, RagText.noDocuments)
    /\ call[p].answer = QueryFailed(RagText.notAvailable)

\* C21: a query that finds an index runs no ingestion: it goes straight to
\* the search, and no step of it changes the index, the counts or the
\* loading progress.
C21_QueryOnBuiltIndex ==
  [][\A p \in Procs :
       /\ (call[p].pc = "idle" /\ call'[p].op = "query" /\ memoryStore # JNull)
            => /\ call'[p].pc = "searching"
               /\ ~call'[p].lazy
       /\ (call'[p] # call[p] /\ call'[p].op = "query" /\ ~call'[p].lazy)
            => /\ call'[p].attempts = <<>>
               /\ call'[p].pc \in {"searching", "done"}
               /\ UNCHANGED <<memoryStore, lastDocsCount, lastChunksCount,
                              loadingProgress>>]_vars

\* two queries were in flight together against the index of the earlier run
\* and both are answered from it; the index is as it was
C21_Witness ==
  /\ \A p \in {1, 2} : /\ call[p].op = "query"
                        /\ ~call[p].lazy
                        /\ call[p].answer = QueryResults(0)
  /\ memoryStore = Store(0, ChunksOf(1))
  /\ getRagStatus.docs = 1
  /\ loadingProgress.status = "processing"

\* the failed attempts of a call
Failures(c) == Cardinality({i \in 1..Len(c.attempts) : ~c.attempts[i]})

\* C24: a run makes at most three attempts, none after a successful one;
\* it has waited one delay for each failed attempt but the third, and waits
\* only after a failed attempt.
C24_AttemptsAndDelays ==
  \A p \in Procs :
    LET c == call[p] IN
    /\ Len(c.attempts) <= RetryBudget
    /\ \A i \in 1..(Len(c.attempts) - 1) : ~c.attempts[i]
    /\ c.delays = IF AllFailed(c) THEN RetryBudget - 1 ELSE Failures(c)
    /\ c.pc = "waiting" => (c.attempts # <<>> /\ ~Inserted(c))
    /\ (c.pc = "adding" /\ c.attempts # <<>>) => ~Inserted(c)

\* one run succeeded at its third attempt after two delays, another failed
\* three times and waited two delays
C24_Witness ==
  \E p, q \in Procs :
    /\ call[p].attempts = <<FALSE, FALSE, TRUE>>
    /\ call[p].delays = 2
    /\ call[q].attempts = <<FALSE, FALSE, FALSE>>
    /\ call[q].delays = 2
    /\ call[q].pc = "done"

\* no caller but p has called yet
Alone(p) == \A q \in Procs \ {p} : call[q].pc = "idle"

\* C28: when a run that loaded documents and inserted their chunks returns
\* (with no other call in between), the status is 'completed'.
C28_CompletedAfterRun ==
  \A p \in Procs :
    (/\ Alone(p)
     /\ call[p].pc = "ran"
     /\ call[p].run = RunReturned(TRUE, RagText.processed))
      => loadingProgress.status = "completed"

\* C29: when a run that failed returns (with no other call in between),
\* the status is 'error'.
C29_ErrorAfterFailedRun ==
  \A p \in Procs :
    (/\ Alone(p)
     /\ call[p].pc = "ran"
     /\ call[p].run.kind = "returned"
     /\ ~call[p].run.success)
      => loadingProgress.status = "error"

\* C30: whenever there is an index, the counts getRagStatus reports are
\* those of the run that built it.
C30_CountsOfTheIndex ==
  getRagStatus.initialized
    => /\ getRagStatus.chunks = Len(memoryStore.vectors)
       /\ getRagStatus.docs = IF memoryStore.run = 0 THEN 1
                               ELSE call[memoryStore.run].docs

\* two runs were in progress together and both committed, over the index of
\* an earlier run with other counts
C30_Witness ==
  \E p, q \in Procs :
    /\ p # q
    /\ call[p].run = RunReturned(TRUE, RagText.processed)
    /\ call[q].run = RunReturned(TRUE, RagText.processed)
    /\ call[q].pc = "ran"
    /\ call[p].pc = "ran"
    /\ memoryStore.run = q
    /\ getRagStatus.docs = 2
    /\ getRagStatus.chunks = 4

\* the provider gave the Recommender a JSON array of one element or more
ValidArray(said) == said.kind = "text" /\ said.array # JNull /\ Len(said.array.v) >= 1

\* a record carries what its source element gives of id, name and cuisine
Carries(src, rec) ==
  \A key \in {"id", "name", "cuisine"} :
    Truthy(Get(src, key)) => Get(rec, key) = Get(src, key)

\* the Recommender made of the array as many records, in its order, each
\* with a non-empty id
RecordsOf(array, recs) ==
  /\ IsArray(recs)
  /\ Len(recs.v) = Len(array.v)
  /\ \A i \in 1..Len(recs.v) :
       /\ Truthy(Get(recs.v[i], "id"))
       /\ Carries(array.v[i], recs.v[i])

\* the steps of a request from the Recommender's provider call on, for the
\* arrays that satisfy P
EndToEnd(P(_)) ==
  /\ (pc = "dish_llm" /\ ValidArray(providerSaid') /\ P(providerSaid'.array))
       => /\ RecordsOf(providerSaid'.array, state'.agent1Output)
          /\ pc' = "dish_route"
  /\ (pc = "dish_route" /\ ValidArray(providerSaid) /\ P(providerSaid.array))
       => pc' = "beverage_pairing"
  /\ (pc = "beverage_pairing" /\ ValidArray(providerSaid) /\ P(providerSaid.array))
       => /\ pc' = "beverage_llm"
          /\ started' = <<"dish_recommender", "beverage_pairing">>
  /\ (outcome'.kind = "returned")
       => PrimaryRecords(outcome'.value) = state'.agent1Output

AnyArray(array) == TRUE

\* C25 (as claimed): a JSON array of n >= 1 elements given to the
\* Recommender becomes n records in the same order, each with a non-empty
\* id; the Pairing Stage then runs, and the dishes of the final result are
\* the Recommender's records.
C25_ValidArrayEndToEnd == [][EndToEnd(AnyArray)]_vars

\* C25 (amended): the same for the arrays none of whose elements is null.
C25_ArrayWithoutNull == [][EndToEnd(LAMBDA array : ~HasNull(array))]_vars

\* an array of two elements, the second without an id, went through both
\* stages, and the result holds the two records
C25_Witness ==
  /\ outcome.kind = "returned"
  /\ completed = <<"dish_recommender", "beverage_pairing">>
  /\ Len(state.agent1Output.v) = 2
  /\ Get(state.agent1Output.v[1], "id") = JStr("d1")
  /\ Get(state.agent1Output.v[2], "id") = JUuid(1)
  /\ PrimaryRecords(outcome.value) = state.agent1Output

\* the Pairing Stage has returned a result object
ResultOfPairing ==
  /\ completed # <<>>
  /\ Last(completed) = "beverage_pairing"
  /\ Truthy(state.agent2Output)

\* the ids of the elements of a list
IdsOf(list) ==
  IF IsArray(list) THEN {Get(list.v[i], "id") : i \in 1..Len(list.v)} ELSE {}

\* each justification of the result names a dish and a beverage of the result
References(result) ==
  LET reasons == Get(result, "pairingReasons") IN
  \A i \in 1..Len(reasons.v) :
    /\ Get(reasons.v[i], "dishId") \in IdsOf(Get(result, "dishes"))
    /\ Get(reasons.v[i], "beverageId") \in IdsOf(Get(result, "beverages"))

\* C26: in every result of the Pairing Stage each justification
\* names the id of a dish and the id of a beverage of that result.
C26_ReasonsReference == ResultOfPairing => References(state.agent2Output)

\* C27: the state changes only when a stage function returns, by the merge
\* of its update; the Recommender's update leaves userInput and
\* agent2Output, the Pairing Stage's update (of a success or of a failure)
\* leaves userInput and agent1Output.
C27_UpdatesLeaveTheRest ==
  [][/\ state' # state
          => /\ Len(completed') = Len(completed) + 1
             /\ state' = Merge(state, lastUpdate'.update)
     /\ \A node \in Stages :
          completed' = Append(completed, node)
            => /\ state'.userInput = state.userInput
               /\ node = "dish_recommender" => state'.agent2Output = state.agent2Output
               /\ node = "beverage_pairing" => state'.agent1Output = state.agent1Output]_vars

\* the Pairing Stage failed after the Recommender, and the state holds the
\* Recommender's records
C27_Witness ==
  /\ entry = "node"
  /\ PairingFailedAfterDishes
  /\ state.agent2Output = JNull
  /\ state.agent1Output = stageInput.agent1Output
  /\ Len(state.agent1Output.v) >= 1

\* C22: every chunk is at most chunkSize + chunkOverlap characters long.
C22_ChunkLength ==
  \A c \in 1..Len(split.chunks) :
    Length(split.chunks[c].content) <= chunkSize + chunkOverlap

\* the content of a chunk after the overlap it starts with
NonOverlap(chunk) ==
  Trim(SubSeq(chunk.content, Len(chunk.overlap) + 1, Len(chunk.content)))

RECURSIVE Concat(_)
Concat(q) == IF q = <<>> THEN <<>> ELSE Head(q) \o Concat(Tail(q))

\* C23: the non-overlap contents of the chunks, one after the other, are
\* the text.
C23_RoundTrip ==
  split.pc = "returned"
    => Concat([c \in 1..Len(split.chunks) |-> NonOverlap(split.chunks[c])])
         = Written(split.text, 1)

====
